---- MODULE Spec2Model ----
(***************************************************************************)
(* pigsty: accessors over DISA checklist files (resources/checklist.py)    *)
(* and OpenSCAP scan results (resources/openscap.py).                      *)
(*                                                                         *)
(* An element text is a record [none, s]: none is Python's None (an empty  *)
(* element), s is the string as a sequence of characters.  A character is  *)
(* a one-element string; a run of ordinary characters that no conversion   *)
(* touches ("Open", "V-1") is written as one chunk.                        *)
(***************************************************************************)
EXTENDS Integers, Sequences, FiniteSets, TLC

\* ------------------------------------------------------------- bounds
MaxEdits == 2
MaxGroups == 3
MaxFacts == 2
MaxIdLen == 5
MaxKids == 2

\* ------------------------------------------------------------- texts
None == [none |-> TRUE, s |-> <<>>]
T(chars) == [none |-> FALSE, s |-> chars]
Str(w) == [none |-> FALSE, s |-> <<w>>]

\* xml.etree.ElementTree._escape_cdata, one character: only & < > are
\* escaped; a carriage return is written as it is.
EscapeChar(c) ==
    CASE c = "&" -> "&amp;"
      [] c = "<" -> "&lt;"
      [] c = ">" -> "&gt;"
      [] OTHER -> c

RECURSIVE EscapeCdata(_)
EscapeCdata(chars) ==
    IF chars = <<>> THEN <<>>
    ELSE <<EscapeChar(Head(chars))>> \o EscapeCdata(Tail(chars))

\* ElementTree._serialize_xml on one element without children: an element
\* whose text is None or "" is written short (<TAG />), with no content.
WriteText(t) == IF t.none \/ t.s = <<>> THEN <<>> ELSE EscapeCdata(t.s)

\* The XML parser on character data: references are replaced, and a line
\* end written as CR LF or as a lone CR reaches the application as LF; a
\* carriage return survives only as the character reference &#13;.
RECURSIVE DecodeCdata(_)
DecodeCdata(raw) ==
    IF raw = <<>> THEN <<>>
    ELSE LET c == Head(raw)
             rest == Tail(raw)
         IN  CASE c = "\r" ->
                    IF rest # <<>> /\ Head(rest) = "\n"
                    THEN <<"\n">> \o DecodeCdata(Tail(rest))
                    ELSE <<"\n">> \o DecodeCdata(rest)
               [] c = "&amp;" -> <<"&">> \o DecodeCdata(rest)
               [] c = "&lt;" -> <<"<">> \o DecodeCdata(rest)
               [] c = "&gt;" -> <<">">> \o DecodeCdata(rest)
               [] c = "&#13;" -> <<"\r">> \o DecodeCdata(rest)
               [] OTHER -> <<c>> \o DecodeCdata(rest)

\* Element.text after ET.parse: None for an element without content.
ReadText(raw) == IF raw = <<>> THEN None ELSE T(DecodeCdata(raw))

\* ------------------------------------------------------ checklist tree
(* The part of a checklist tree the accessors read:                        *)
(*   doc   = [hasAsset, asset : Seq([tag, text]),                          *)
(*            stigs : Seq([hasInfo, info : Seq(group), vulns : Seq(vuln)])]*)
(*   group = [name, hasData, data]: one SI_DATA or STIG_DATA element with  *)
(*           its name child and, when hasData, its value child             *)
(*   vuln  = [attrs : Seq(group), f : [ReviewFields -> text]]              *)
(* In a tree the texts are text records; in a file they are the           *)
(* characters written between the tags.                                    *)
ReviewFields ==
    {"STATUS", "FINDING_DETAILS", "COMMENTS", "SEVERITY_OVERRIDE",
     "SEVERITY_JUSTIFICATION"}

StatusValues == {"Not_Reviewed", "NotAFinding", "Not_Applicable", "Open"}

\* One text on its way to the file ("write") or from it ("read").
Convert(way, x) == IF way = "write" THEN WriteText(x) ELSE ReadText(x)

MapGroups(groups, way) ==
    [i \in DOMAIN groups |->
        [name |-> Convert(way, groups[i].name), hasData |-> groups[i].hasData,
         data |-> Convert(way, groups[i].data)]]

MapVuln(v, way) ==
    [attrs |-> MapGroups(v.attrs, way),
     f |-> [x \in ReviewFields |-> Convert(way, v.f[x])]]

MapStig(st, way) ==
    [hasInfo |-> st.hasInfo, info |-> MapGroups(st.info, way),
     vulns |-> [j \in DOMAIN st.vulns |-> MapVuln(st.vulns[j], way)]]

MapDoc(doc, way) ==
    [hasAsset |-> doc.hasAsset,
     asset |-> [i \in DOMAIN doc.asset |->
                    [tag |-> doc.asset[i].tag, text |-> Convert(way, doc.asset[i].text)]],
     stigs |-> [i \in DOMAIN doc.stigs |-> MapStig(doc.stigs[i], way)]]

\* ElementTree.write: what the file holds; ET.parse: the tree of a file.
Serialize(doc) == MapDoc(doc, "write")
ParseXml(filedoc) == MapDoc(filedoc, "read")

Absent == [kind |-> "absent"]
Malformed == [kind |-> "malformed"]
XmlFile(filedoc) == [kind |-> "xml", doc |-> filedoc]

\* ------------------------------------------------------- keyed views
\* A view is [kind, gen, stig, vuln]: the AssetNode, a StigInfoNode or a
\* VulnNode over a node of tree gen.
AssetView(g) == [kind |-> "asset", gen |-> g, stig |-> 0, vuln |-> 0]
InfoView(g, i) == [kind |-> "info", gen |-> g, stig |-> i, vuln |-> 0]
VulnView(g, i, j) == [kind |-> "vuln", gen |-> g, stig |-> i, vuln |-> j]

Immutable(view) == view.kind # "asset"

\* Whether the view wraps an element: find() gives None for a missing
\* ASSET or STIG_INFO and the view is built over it all the same.
NodeExists(doc, view) ==
    CASE view.kind = "asset" -> doc.hasAsset
      [] view.kind = "info" -> doc.stigs[view.stig].hasInfo
      [] OTHER -> TRUE

Groups(doc, view) ==
    IF view.kind = "info" THEN doc.stigs[view.stig].info
    ELSE doc.stigs[view.stig].vulns[view.vuln].attrs

Range(seq) == {seq[i] : i \in DOMAIN seq}
Min(S) == CHOOSE x \in S : \A y \in S : x <= y
Max(S) == CHOOSE x \in S : \A y \in S : x >= y

\* prefix + key + suffix is not a path ElementPath accepts: in the keyed
\* views the key sits in a quoted literal, which a double quote in the key
\* ends early; in the asset view the key is the path step itself, which an
\* opening bracket at its end leaves without its predicate.
PathInvalid(view, key) ==
    IF view.kind = "asset" THEN key # <<>> /\ key[Len(key)] = "["
    ELSE "\"" \in Range(key)

\* node.find(prefix + key + suffix) in a keyed view: the value child of the
\* first group, in document order, whose name child's text is the key and
\* which has a value child; 0 when there is none.
FindKeyedAnyGroup(groups, key) ==
    LET hits == {i \in DOMAIN groups : groups[i].name.s = key}
    IN  IF hits = {} THEN 0 ELSE Min(hits)

FindKeyedLast(groups, key) ==
    LET hits == {i \in DOMAIN groups : groups[i].name.s = key /\ groups[i].hasData}
    IN  IF hits = {} THEN 0 ELSE Max(hits)

FindKeyed(groups, key) ==
    LET hits == {i \in DOMAIN groups : groups[i].name.s = key /\ groups[i].hasData}
    IN  IF hits = {} THEN 0 ELSE Min(hits)

\* node.find(".//" + key) in the asset view: the first element named key.
FindTag(fields, key) ==
    LET hits == {i \in DOMAIN fields : <<fields[i].tag>> = key}
    IN  IF hits = {} THEN 0 ELSE Min(hits)

Find(doc, view, key) ==
    IF view.kind = "asset" THEN FindTag(doc.asset, key)
    ELSE FindKeyed(Groups(doc, view), key)

TextAt(doc, view, i) ==
    IF view.kind = "asset" THEN doc.asset[i].text ELSE Groups(doc, view)[i].data

PutText(doc, view, i, value) ==
    CASE view.kind = "asset" ->
            [doc EXCEPT !.asset[i].text = value]
      [] view.kind = "info" ->
            [doc EXCEPT !.stigs[view.stig].info[i].data = value]
      [] OTHER ->
            [doc EXCEPT !.stigs[view.stig].vulns[view.vuln].attrs[i].data = value]

\* What the lookup of get and set ends in.  With no element behind the
\* view, find fails with AttributeError and so does the handler that
\* formats the KeyError (it reads node.tag).
LookupError(doc, view, key) ==
    CASE ~NodeExists(doc, view) -> "AttributeError"
      [] PathInvalid(view, key) ->
            IF view.kind = "asset" /\ Len(key) > 1 THEN "TypeError"
            ELSE "SyntaxError"
      [] Find(doc, view, key) = 0 -> "KeyError"
      [] OTHER -> "none"

\* DictNode.get
DictGet(doc, view, key) ==
    LET e == LookupError(doc, view, key)
    IN  [err |-> e,
         val |-> IF e = "none" THEN TextAt(doc, view, Find(doc, view, key))
                 ELSE None]

\* DictNode.set: the error and the tree afterwards.
SetRefusesNever(view) == FALSE
SetRefuses(view) == Immutable(view)

DictSet(doc, view, key, value) ==
    IF SetRefuses(view) THEN [err |-> "PermissionError", doc |-> doc]
    ELSE LET e == LookupError(doc, view, key)
         IN  [err |-> e,
              doc |-> IF e = "none"
                      THEN PutText(doc, view, Find(doc, view, key), value)
                      ELSE doc]

\* StigInfoNode.items: one pair per child of the node, the value "" where
\* the group has no value child (the element made for it is not attached).
InfoItems(groups) ==
    [i \in DOMAIN groups |->
        <<groups[i].name, IF groups[i].hasData THEN groups[i].data ELSE T(<<>>)>>]

\* VulnNode.items: fails on a group without its value child.
VulnItemsError(groups) ==
    IF \E i \in DOMAIN groups : ~groups[i].hasData THEN "AttributeError" ELSE "none"

VulnItems(groups) == [i \in DOMAIN groups |-> <<groups[i].name, groups[i].data>>]

\* items() of a keyed view: what it raises and what it returns.  Iterating
\* the node of a StigInfoNode built over a missing STIG_INFO is a TypeError.
ItemsError(doc, view) ==
    CASE view.kind = "info" -> IF NodeExists(doc, view) THEN "none" ELSE "TypeError"
      [] OTHER -> VulnItemsError(Groups(doc, view))

ItemsOf(doc, view) ==
    IF view.kind = "info" THEN InfoItems(Groups(doc, view))
    ELSE VulnItems(Groups(doc, view))

\* ------------------------------------------------------- sample files
\* Files as they lie on disk (texts as written between the tags).
RawGroup(n, d) == [name |-> <<n>>, hasData |-> TRUE, data |-> d]
RawGroupNoData(n) == [name |-> <<n>>, hasData |-> FALSE, data |-> <<>>]

RawVuln(num, status, comments) ==
    [attrs |-> <<RawGroup("Vuln_Num", <<num>>), RawGroup("Severity", <<"medium">>)>>,
     f |-> [x \in ReviewFields |->
              CASE x = "STATUS" -> <<status>>
                [] x = "COMMENTS" -> comments
                [] OTHER -> <<>>]]

RawInfo ==
    <<RawGroup("version", <<"001.001">>), RawGroupNoData("customname"),
      RawGroup("title", <<>>)>>

RawAsset == <<[tag |-> "ROLE", text |-> <<"None">>], [tag |-> "HOST_NAME", text |-> <<>>]>>

\* A checklist as STIG Viewer writes it.
PlainFile ==
    XmlFile([hasAsset |-> TRUE, asset |-> RawAsset,
             stigs |-> <<[hasInfo |-> TRUE, info |-> RawInfo,
                          vulns |-> <<RawVuln("V-1", "Open", <<>>),
                                      RawVuln("V-2", "Not_Reviewed",
                                              <<"a", "&amp;", "b", "\r", "\n", "c">>)>>]>>])

\* The same with a carriage return kept in a comment by a character
\* reference.
CrFile ==
    XmlFile([hasAsset |-> TRUE, asset |-> RawAsset,
             stigs |-> <<[hasInfo |-> TRUE, info |-> RawInfo,
                          vulns |-> <<RawVuln("V-1", "Open", <<"x", "&#13;", "y">>)>>]>>])

\* Well-formed XML with no ASSET and no STIG_INFO element.
BareFile ==
    XmlFile([hasAsset |-> FALSE, asset |-> <<>>,
             stigs |-> <<[hasInfo |-> FALSE, info |-> <<>>,
                          vulns |-> <<RawVuln("V-1", "NotAFinding", <<>>)>>]>>])

\* Well-formed XML in which the second VULN has no Vuln_Num group.
NoNumFile ==
    XmlFile([hasAsset |-> TRUE, asset |-> RawAsset,
             stigs |-> <<[hasInfo |-> TRUE, info |-> RawInfo,
                          vulns |-> <<RawVuln("V-1", "Open", <<>>),
                                      [attrs |-> <<RawGroup("Severity", <<"low">>)>>,
                                       f |-> [x \in ReviewFields |-> <<>>]]>>]>>])

SampleFiles == {PlainFile, CrFile, BareFile, NoNumFile}

Paths == {"in.ckl", "out/b.ckl"}
Parent(path) == IF path = "out/b.ckl" THEN "out" ELSE "."

Keys ==
    {<<"ROLE">>, <<"version">>, <<"customname">>, <<"Severity">>, <<"nokey">>,
     <<"a", "\"", "b">>, <<"x", "[">>}

NoView == [kind |-> "none", gen |-> 0, stig |-> 0, vuln |-> 0]
NoDoc == [hasAsset |-> FALSE, asset |-> <<>>, stigs |-> <<>>]

\* ------------------------------------------------------------- state
VARIABLES
    fs,        \* the files: path -> Absent, Malformed or XmlFile
    dirs,      \* the directories that exist, besides the working directory
    heap,      \* the parsed trees still referenced: id -> doc
    file,      \* Checklist.file
    tree,      \* Checklist.tree: a tree id, 0 for None
    root,      \* Checklist.root: the tree whose root it is, 0 for None
    asset,     \* Checklist.asset: the tree whose ASSET it wraps, 0 for None
    stigs,     \* Checklist.stigs: a sequence of StigNode
    pc,        \* "idle", or "write" inside save() before tree.write
    saving,    \* the arguments of the save() under way
    last,      \* the last call and how it ended
    edits,     \* set and assignment calls so far that changed a tree
    rt         \* how far a load, status assignment, save, load has come

cklVars == <<fs, dirs, heap, file, tree, root, asset, stigs, pc, saving, last, edits, rt>>

VARIABLES
    xfile,         \* the scan-results file: Malformed or XmlFile of a tree
    xheap,         \* the parsed result trees still referenced: id -> tree
    xtree,         \* OpenSCAPSTIGViewerResult.tree: a tree id, 0 for None
    xroot,         \* OpenSCAPSTIGViewerResult.root
    rule_results,  \* OpenSCAPSTIGViewerResult.rule_results: vid -> [gen, idx]
    xlast          \* the last call on the scan-results accessor

scanVars == <<xfile, xheap, xtree, xroot, rule_results, xlast>>
vars == <<cklVars, scanVars>>

\* StigNode.__init__: the dictionary of VulnNode by the text of the
\* Vuln_Num group; a later VULN with the same number replaces an earlier.
VulnNum(v) == v.attrs[FindKeyed(v.attrs, <<"Vuln_Num">>)].data

StigNodeFails(st) ==
    \E j \in DOMAIN st.vulns : FindKeyed(st.vulns[j].attrs, <<"Vuln_Num">>) = 0

StigNode(g, doc, i) ==
    LET vs == doc.stigs[i].vulns
        nums == {VulnNum(vs[j]) : j \in DOMAIN vs}
    IN  [gen |-> g, idx |-> i,
         vuln_nodes |-> [k \in nums |-> Max({j \in DOMAIN vs : VulnNum(vs[j]) = k})]]

Obj == [tree |-> tree, root |-> root, asset |-> asset, stigs |-> stigs]
Fresh == [tree |-> 0, root |-> 0, asset |-> 0, stigs |-> <<>>]

\* The trees an object in state o references.
Live(o) ==
    ({o.tree, o.root, o.asset} \cup {o.stigs[i].gen : i \in DOMAIN o.stigs}) \ {0}

\* The id of the tree a parse makes: one that no live tree has (the old
\* tree and the tree of the old stigs are live until they are replaced).
NewTree(o) == Min(1..(Cardinality(Live(o)) + 1) \ Live(o))

\* Ids only tell trees apart: after a load the object's tree is renamed 1
\* and the tree its stigs still come from, if another, 2.
Rename(o, x) == IF x = 0 THEN 0 ELSE IF x = o.tree THEN 1 ELSE 2

Renamed(o) ==
    [tree |-> Rename(o, o.tree), root |-> Rename(o, o.root), asset |-> Rename(o, o.asset),
     stigs |-> [i \in DOMAIN o.stigs |-> [o.stigs[i] EXCEPT !.gen = Rename(o, @)]]]

\* Checklist._load_stigs on tree g: the list is assigned only when every
\* StigNode has been built.
LoadStigs(o, g, doc) ==
    IF \E i \in DOMAIN doc.stigs : StigNodeFails(doc.stigs[i])
    THEN [err |-> "AttributeError", o |-> o]
    ELSE [err |-> "none",
          o |-> [o EXCEPT !.stigs = [i \in DOMAIN doc.stigs |-> StigNode(g, doc, i)]]]

\* Checklist.load on an object in state o: _parse, _load_asset,
\* _load_stigs, each assigning as it goes.
LoadFrom(path, o) ==
    LET f == fs[path]
        g == NewTree(o)
    IN  CASE f.kind = "absent" ->
                [err |-> "FileNotFoundError", o |-> o, parsed |-> FALSE]
          [] f.kind = "malformed" ->
                [err |-> "ParseError", o |-> o, parsed |-> FALSE]
          [] OTHER ->
                LET doc == ParseXml(f.doc)
                    r == LoadStigs([o EXCEPT !.tree = g, !.root = g, !.asset = g], g, doc)
                IN  [err |-> r.err, o |-> r.o, parsed |-> TRUE]

\* The trees after a load from state o that ended as r: the new tree is
\* added and the trees no longer referenced are gone.
HeapAfter(o, r, path) ==
    LET g == NewTree(o)
        h == IF r.parsed
             THEN [x \in DOMAIN heap \cup {g} |->
                      IF x = g THEN ParseXml(fs[path].doc) ELSE heap[x]]
             ELSE heap
    IN  [y \in {Rename(r.o, x) : x \in Live(r.o)} |->
            h[CHOOSE x \in Live(r.o) : Rename(r.o, x) = y]]

\* A call as the caller sees it end: the operation, the view and key it was
\* made with, the error raised ("none": it returned) and the value returned.
Call(op, view, key, err, val) ==
    [op |-> op, view |-> view, key |-> key, err |-> err, val |-> val]

Adopt(o) ==
    /\ tree' = o.tree
    /\ root' = o.root
    /\ asset' = o.asset
    /\ stigs' = o.stigs

\* The round trip of a status: "loaded" after a load that returned, with the
\* tree it gave; "mutated" after one status assignment on that tree, with
\* the tree the assignment left; "saved" once save has written it;
\* "reloaded" after a load of the saved file.  Anything else ends the trip.
NoTrip == [phase |-> "none", expect |-> NoDoc]

Loaded(path, err, h) ==
    CASE err # "none" -> NoTrip
      [] rt.phase = "saved" /\ path = "out/b.ckl" -> [rt EXCEPT !.phase = "reloaded"]
      [] OTHER -> [phase |-> "loaded", expect |-> h[1]]

\* Checklist.load()
Load ==
    /\ pc = "idle"
    /\ LET r == LoadFrom(file, Obj)
       IN  /\ Adopt(Renamed(r.o))
           /\ heap' = HeapAfter(Obj, r, file)
           /\ last' = Call("load", NoView, <<>>, r.err, None)
           /\ rt' = Loaded(file, r.err, HeapAfter(Obj, r, file))
    /\ UNCHANGED <<fs, dirs, file, pc, saving, edits, scanVars>>

\* Checklist(path, autoload): a new object takes the place of the old one;
\* when the load inside __init__ raises, no object is returned and the
\* caller keeps the one it had.
Construct(path, autoload) ==
    /\ pc = "idle"
    /\ IF ~autoload
       THEN /\ Adopt(Fresh)
            /\ file' = path
            /\ heap' = [x \in {} |-> NoDoc]
            /\ last' = Call("construct", NoView, <<>>, "none", None)
            /\ rt' = IF rt.phase = "saved" THEN rt ELSE NoTrip
       ELSE LET r == LoadFrom(path, Fresh)
            IN  IF r.err = "none"
                THEN /\ Adopt(Renamed(r.o))
                     /\ file' = path
                     /\ heap' = HeapAfter(Fresh, r, path)
                     /\ last' = Call("construct", NoView, <<>>, "none", None)
                     /\ rt' = Loaded(path, "none", HeapAfter(Fresh, r, path))
                ELSE /\ UNCHANGED <<tree, root, asset, stigs, file, heap, rt>>
                     /\ last' = Call("construct", NoView, <<>>, r.err, None)
    /\ UNCHANGED <<fs, dirs, pc, saving, edits, scanVars>>

\* The views a caller can reach from the object.
Views ==
    (IF asset = 0 THEN {} ELSE {AssetView(asset)})
    \cup {InfoView(stigs[i].gen, stigs[i].idx) : i \in DOMAIN stigs}
    \cup UNION {{VulnView(stigs[i].gen, stigs[i].idx, stigs[i].vuln_nodes[k]) :
                    k \in DOMAIN stigs[i].vuln_nodes} : i \in DOMAIN stigs}

VulnViews == {v \in Views : v.kind = "vuln"}

\* view.get(key)
Get(view, key) ==
    /\ pc = "idle"
    /\ LET r == DictGet(heap[view.gen], view, key)
       IN  last' = Call("get", view, key, r.err, r.val)
    /\ UNCHANGED <<fs, dirs, heap, file, tree, root, asset, stigs, pc, saving, edits, rt, scanVars>>

\* view.set(key, value)
Set(view, key, value) ==
    /\ pc = "idle"
    /\ edits < MaxEdits
    /\ LET r == DictSet(heap[view.gen], view, key, value)
       IN  /\ heap' = [heap EXCEPT ![view.gen] = r.doc]
           /\ last' = Call("set", view, key, r.err, None)
           /\ edits' = IF r.doc # heap[view.gen] THEN edits + 1 ELSE edits
           /\ rt' = IF r.doc # heap[view.gen] THEN NoTrip ELSE rt
    /\ UNCHANGED <<fs, dirs, file, tree, root, asset, stigs, pc, saving, scanVars>>

\* view.items() on a StigInfoNode or a VulnNode; the element that
\* StigInfoNode.items makes for a missing value is attached nowhere.
Items(view) ==
    /\ pc = "idle"
    /\ view.kind \in {"info", "vuln"}
    /\ LET e == ItemsError(heap[view.gen], view)
       IN  last' = Call("items", view, <<>>, e,
                        IF e = "none" THEN [none |-> FALSE, s |-> ItemsOf(heap[view.gen], view)]
                        ELSE None)
    /\ UNCHANGED <<fs, dirs, heap, file, tree, root, asset, stigs, pc, saving, edits, rt, scanVars>>

\* The setter of a review property of a VulnNode: node.find(TAG).text = value
AssignField(doc, view, field, value) ==
    [doc EXCEPT !.stigs[view.stig].vulns[view.vuln].f[field] = value]

Assign(view, field, value) ==
    /\ pc = "idle"
    /\ edits < MaxEdits
    /\ LET d == AssignField(heap[view.gen], view, field, value)
       IN  /\ heap' = [heap EXCEPT ![view.gen] = d]
           /\ last' = Call("assign", view, <<field>>, "none", None)
           /\ rt' = IF rt.phase = "loaded" /\ field = "STATUS" /\ view.gen = tree
                    THEN [phase |-> "mutated", expect |-> d]
                    ELSE NoTrip
    /\ edits' = edits + 1
    /\ UNCHANGED <<fs, dirs, file, tree, root, asset, stigs, pc, saving, scanVars>>

Exists(path) == fs[path].kind # "absent"

\* save raises FileExistsError: the target exists and force is not set.
SaveOverwritesUnasked(path, force) == FALSE
SaveRefuses(path, force) == Exists(path) /\ ~force

\* Checklist.save up to tree.write: the parent directory is made, and an
\* existing target either ends the call or is unlinked.  saving keeps the
\* arguments of the call and whether the target existed.
SaveCall(path, force) ==
    /\ pc = "idle"
    /\ dirs' = IF Parent(path) = "." THEN dirs ELSE dirs \cup {Parent(path)}
    /\ saving' = [path |-> path, force |-> force, existed |-> Exists(path)]
    /\ IF SaveRefuses(path, force)
       THEN /\ last' = Call("save", NoView, <<>>, "FileExistsError", None)
            /\ UNCHANGED <<fs, pc>>
       ELSE /\ fs' = [fs EXCEPT ![path] = Absent]
            /\ pc' = "write"
            /\ last' = Call("save", NoView, <<>>, "none", None)
    /\ UNCHANGED <<heap, file, tree, root, asset, stigs, edits, rt, scanVars>>

\* tree.write(output_file), which ends save
SaveWrite ==
    /\ pc = "write"
    /\ pc' = "idle"
    /\ IF tree = 0
       THEN /\ last' = Call("write", NoView, <<>>, "AttributeError", None)
            /\ UNCHANGED fs
       ELSE /\ fs' = [fs EXCEPT ![saving.path] = XmlFile(Serialize(heap[tree]))]
            /\ last' = Call("write", NoView, <<>>, "none", None)
    /\ rt' = IF rt.phase = "mutated" /\ tree # 0 THEN [rt EXCEPT !.phase = "saved"] ELSE NoTrip
    /\ UNCHANGED <<dirs, heap, file, tree, root, asset, stigs, saving, edits, scanVars>>

\* Another program replaces the checklist file between two calls.
ExternWrite(content) ==
    /\ pc = "idle"
    /\ fs["in.ckl"] # content
    /\ fs' = [fs EXCEPT !["in.ckl"] = content]
    /\ last' = Call("extern", NoView, <<>>, "none", None)
    /\ UNCHANGED <<dirs, heap, file, tree, root, asset, stigs, pc, saving, edits, rt, scanVars>>

\* ------------------------------------------------------- scan results
(* The part of an XCCDF result tree the accessors read:                    *)
(*   [facts : Seq([tag, name, text]),   children of target-facts           *)
(*    addrs : Seq(text),                target-address elements            *)
(*    rules : Seq([idref])]             rule-result elements               *)
(* A tag is "xccdf:fact" (fact in the XCCDF namespace) or "xccdffact" (an  *)
(* element of that name in no namespace); idref is a text record, none     *)
(* when the attribute is missing.                                          *)
INVALID_IPV4 == {Str("127.0.0.1"), Str("192.168.122.1")}
INVALID_MAC == {Str("00:00:00:00:00:00")}
INVALID_HOSTNAME == {Str("localhost")}
INVALID_IPV6 == {Str("::1")}

FactTexts(doc, tag, name) ==
    {doc.facts[i].text :
        i \in {j \in DOMAIN doc.facts : doc.facts[j].tag = tag /\ doc.facts[j].name = name}}

target_addresses(doc) ==
    {doc.addrs[i] : i \in DOMAIN doc.addrs}
        \ (INVALID_IPV4 \cup INVALID_IPV6 \cup INVALID_HOSTNAME \cup INVALID_MAC)

ipv4(doc) == FactTexts(doc, "xccdf:fact", "ipv4") \ INVALID_IPV4

\* The query of ipv6 names the element xccdffact, without the colon.
ipv6(doc) == FactTexts(doc, "xccdffact", "ipv6") \ INVALID_IPV6

mac(doc) == FactTexts(doc, "xccdf:fact", "mac") \ INVALID_MAC

hostnameUnfiltered(doc) == FactTexts(doc, "xccdf:fact", "host_name")
hostname(doc) == FactTexts(doc, "xccdf:fact", "host_name") \ INVALID_HOSTNAME

fqdn(doc) == FactTexts(doc, "xccdf:fact", "fqdn")

\* re.search(r"V-[0-9]+", s): the match at the leftmost position where one
\* starts, taking every digit that follows.
IsDigit(c) == c \in {"0", "1", "2", "3", "4", "5", "6", "7", "8", "9"}

RECURSIVE DigitRun(_, _)
DigitRun(s, i) == IF i <= Len(s) /\ IsDigit(s[i]) THEN 1 + DigitRun(s, i + 1) ELSE 0

\* The length of the match that starts at position i, 0 when none does.
MatchAt(s, i) ==
    IF i + 2 <= Len(s) /\ s[i] = "V" /\ s[i + 1] = "-" /\ DigitRun(s, i + 2) > 0
    THEN 2 + DigitRun(s, i + 2)
    ELSE 0

RECURSIVE SearchFrom(_, _)
SearchFrom(s, i) ==
    IF i > Len(s) THEN <<>>
    ELSE IF MatchAt(s, i) > 0 THEN SubSeq(s, i, i + MatchAt(s, i) - 1)
    ELSE SearchFrom(s, i + 1)

SearchLazy(s) ==
    LET hits == {i \in DOMAIN s : MatchAt(s, i) > 0}
    IN  IF hits = {} THEN <<>> ELSE SubSeq(s, Min(hits), Min(hits) + 2)

\* The matched text, <<>> when re.search gives None.
Search(s) == SearchFrom(s, 1)

\* OpenSCAPRuleResult.vid of a rule-result node
vid(node) == Search(node.idref.s)

\* What deriving the id of a node ends in: re.search raises TypeError on a
\* missing idref, and None.group raises AttributeError.
VidError(node) ==
    CASE node.idref.none -> "TypeError"
      [] Search(node.idref.s) = <<>> -> "AttributeError"
      [] OTHER -> "none"

XLive(t, rr) == ({t} \cup {rr[k].gen : k \in DOMAIN rr}) \ {0}
XNewTree(t, rr) == Min(1..(Cardinality(XLive(t, rr)) + 1) \ XLive(t, rr))

\* Ids only tell trees apart: after a load the object's tree is renamed 1
\* and the older trees that entries still wrap 2, 3, ... in their order.
XRename(t, rr, x) ==
    IF x = 0 THEN 0
    ELSE IF x = t THEN 1
    ELSE 2 + Cardinality({y \in XLive(t, rr) \ {t} : y < x})

XRenamed(t, rr) == [k \in DOMAIN rr |-> [rr[k] EXCEPT !.gen = XRename(t, rr, @)]]

\* The loop of _load_rule_results from node i on: each node's entry is put
\* into the dictionary as it is reached, and the loop ends at the first
\* node whose id cannot be derived.
RECURSIVE IndexRules(_, _, _, _)
IndexRules(rr, g, rules, i) ==
    IF i > Len(rules) THEN [err |-> "none", rr |-> rr]
    ELSE IF VidError(rules[i]) # "none" THEN [err |-> VidError(rules[i]), rr |-> rr]
    ELSE LET k == vid(rules[i])
         IN  IndexRules([x \in DOMAIN rr \cup {k} |->
                            IF x = k THEN [gen |-> g, idx |-> i] ELSE rr[x]],
                        g, rules, i + 1)

\* OpenSCAPSTIGViewerResult.load on an object with tree t and dictionary rr
ScanLoadFrom(t, rr) ==
    IF xfile.kind # "xml"
    THEN [err |-> "ParseError", tree |-> t, rr |-> rr, parsed |-> FALSE]
    ELSE LET g == XNewTree(t, rr)
             r == IndexRules(rr, g, xfile.doc.rules, 1)
         IN  [err |-> r.err, tree |-> g, rr |-> r.rr, parsed |-> TRUE]

XHeapAfter(t, rr, r) ==
    LET g == XNewTree(t, rr)
        h == IF r.parsed
             THEN [x \in DOMAIN xheap \cup {g} |-> IF x = g THEN xfile.doc ELSE xheap[x]]
             ELSE xheap
    IN  [y \in {XRename(r.tree, r.rr, x) : x \in XLive(r.tree, r.rr)} |->
            h[CHOOSE x \in XLive(r.tree, r.rr) : XRename(r.tree, r.rr, x) = y]]

NoRules == [k \in {} |-> [gen |-> 0, idx |-> 0]]
NoTrees == [x \in {} |-> [facts |-> <<>>, addrs |-> <<>>, rules |-> <<>>]]

\* OpenSCAPSTIGViewerResult.load()
ScanLoad ==
    /\ LET r == ScanLoadFrom(xtree, rule_results)
       IN  /\ xtree' = XRename(r.tree, r.rr, r.tree)
           /\ xroot' = XRename(r.tree, r.rr, r.tree)
           /\ rule_results' = XRenamed(r.tree, r.rr)
           /\ xheap' = XHeapAfter(xtree, rule_results, r)
           /\ xlast' = [op |-> "load", err |-> r.err]
    /\ UNCHANGED <<xfile, cklVars>>

\* OpenSCAPSTIGViewerResult(file, autoload): when the load inside __init__
\* raises, the caller keeps the object it had.
ScanConstruct(autoload) ==
    /\ IF ~autoload
       THEN /\ xtree' = 0
            /\ xroot' = 0
            /\ rule_results' = NoRules
            /\ xheap' = NoTrees
            /\ xlast' = [op |-> "construct", err |-> "none"]
       ELSE LET r == ScanLoadFrom(0, NoRules)
            IN  IF r.err = "none"
                THEN /\ xtree' = 1
                     /\ xroot' = 1
                     /\ rule_results' = XRenamed(r.tree, r.rr)
                     /\ xheap' = [x \in {1} |-> xfile.doc]
                     /\ xlast' = [op |-> "construct", err |-> "none"]
                ELSE /\ UNCHANGED <<xtree, xroot, rule_results, xheap>>
                     /\ xlast' = [op |-> "construct", err |-> r.err]
    /\ UNCHANGED <<xfile, cklVars>>

(* What as_dict reads of a rule-result node besides idref, each with a     *)
(* default for the nodes that do not say:                                  *)
(*   check   : [present, system, refs, exports]: the check child, with its *)
(*             check-content-ref and check-export children                 *)
(*   refs    : check-content-ref elements that are children of the         *)
(*             rule-result itself                                          *)
(*   hasIdent, hasTime : the ident child and the time attribute            *)
(* A check-content-ref is [name, href, kids], kids saying whether the      *)
(* element has children; a check-export is [export_name, href].            *)
NoCheck == [present |-> FALSE, system |-> "", refs |-> <<>>, exports |-> <<>>]
CheckOf(node) == IF "check" \in DOMAIN node THEN node.check ELSE NoCheck
RefsOf(node) == IF "refs" \in DOMAIN node THEN node.refs ELSE <<>>
HasIdent(node) == IF "hasIdent" \in DOMAIN node THEN node.hasIdent ELSE TRUE
HasTime(node) == IF "hasTime" \in DOMAIN node THEN node.hasTime ELSE TRUE

\* bool(element): an element is true when it has children.  find gives
\* None, which is false too, when there is no such element.
CheckTruthy(node) ==
    CheckOf(node).present /\ Len(CheckOf(node).refs) + Len(CheckOf(node).exports) > 0

RefTruthy(node) == RefsOf(node) # <<>> /\ RefsOf(node)[1].kids

\* The value as_dict builds for "check": None unless the check element is
\* true; else a one-element tuple (the expression ends in a comma) holding
\* the dictionary.  check-content-ref is looked up among the children of
\* the rule-result, and check-export by findall without the namespace map,
\* which matches no parsed element.
CheckData(node) ==
    IF ~CheckTruthy(node) THEN [none |-> TRUE, items |-> <<>>]
    ELSE [none |-> FALSE,
          items |-> <<[system |-> CheckOf(node).system,
                       check_content_ref |->
                           IF RefTruthy(node)
                           THEN [none |-> FALSE, name |-> RefsOf(node)[1].name,
                                 href |-> RefsOf(node)[1].href]
                           ELSE [none |-> TRUE, name |-> "", href |-> ""],
                       check_export |-> <<>>]>>]

\* What building the returned dictionary raises: vid, then time (strptime
\* of a missing attribute), then ident.get on a missing ident.
AsDictError(node) ==
    CASE VidError(node) # "none" -> VidError(node)
      [] ~HasTime(node) -> "TypeError"
      [] ~HasIdent(node) -> "AttributeError"
      [] OTHER -> "none"

\* rule_results[k].as_dict()
ScanAsDict(k) ==
    /\ k \in DOMAIN rule_results
    /\ LET node == xheap[rule_results[k].gen].rules[rule_results[k].idx]
       IN  xlast' = [op |-> "as_dict", err |-> AsDictError(node), key |-> k,
                     check |-> IF AsDictError(node) = "none" THEN CheckData(node)
                               ELSE [none |-> TRUE, items |-> <<>>]]
    /\ UNCHANGED <<xfile, xheap, xtree, xroot, rule_results, cklVars>>

\* Another program replaces the scan-results file between two calls.
ScanExternWrite(content) ==
    /\ xfile # content
    /\ xfile' = content
    /\ xlast' = [op |-> "extern", err |-> "none"]
    /\ UNCHANGED <<xheap, xtree, xroot, rule_results, cklVars>>

\* ------------------------------------------------------------ inputs
SeqsUpTo(S, n) == UNION {[1..k -> S] : k \in 0..n}

FactNames == {"ipv4", "ipv6", "mac", "host_name", "fqdn"}

AddrValues ==
    INVALID_IPV4 \cup INVALID_IPV6 \cup INVALID_HOSTNAME \cup INVALID_MAC
        \cup {Str("10.0.0.5")}

FactChoices ==
    [tag : {"xccdf:fact"}, name : FactNames, text : AddrValues]
        \cup [tag : {"xccdffact"}, name : {"ipv6"}, text : AddrValues]

\* The accessors read the facts as a set: one order of the facts stands
\* for all, the order of a numbering of the choices.
AddrSeq == CHOOSE q \in [1..Cardinality(AddrValues) -> AddrValues] :
              {q[i] : i \in DOMAIN q} = AddrValues

FactNameSeq == <<"ipv4", "ipv6", "mac", "host_name", "fqdn">>

FactNumber(f) ==
    (IF f.tag = "xccdf:fact" THEN 0 ELSE 100)
        + 10 * (CHOOSE i \in DOMAIN FactNameSeq : FactNameSeq[i] = f.name)
        + (CHOOSE i \in DOMAIN AddrSeq : AddrSeq[i] = f.text)

FactSeqs ==
    {q \in SeqsUpTo(FactChoices, MaxFacts) :
        \A i, j \in DOMAIN q : i < j => FactNumber(q[i]) <= FactNumber(q[j])}

IdChars == {"V", "-", "7", "8"}

Rule(chars) == [idref |-> T(chars)]
ScanDoc(f, a, r) == [facts |-> f, addrs |-> a, rules |-> r]

Facts0 == <<[tag |-> "xccdf:fact", name |-> "ipv4", text |-> Str("10.0.0.5")]>>
Addrs0 == <<Str("10.0.0.5")>>
Rules0 == <<Rule(<<"xccdf_rule_", "V", "-", "2", "3">>)>>

\* Files with two rule-result nodes: distinct ids, the same id twice, a
\* second node whose idref has no id in it, and a node without idref.
SampleScans ==
    {XmlFile(ScanDoc(Facts0, Addrs0, r)) :
        r \in {<<Rule(<<"V", "-", "7">>), Rule(<<"x", "V", "-", "8", "8">>)>>,
               <<Rule(<<"V", "-", "7", "a">>), Rule(<<"V", "-", "7", "b">>)>>,
               <<Rule(<<"V", "-", "7", "_", "V", "-", "8">>)>>,
               <<Rule(<<"V", "-", "9">>), Rule(<<"V", "-">>)>>,
               <<[idref |-> None]>>}}

ScanFiles ==
    {XmlFile(ScanDoc(f, Addrs0, Rules0)) : f \in FactSeqs}
        \cup {XmlFile(ScanDoc(Facts0, a, Rules0)) : a \in SeqsUpTo(AddrValues, MaxFacts)}
        \cup {XmlFile(ScanDoc(Facts0, Addrs0, <<Rule(c)>>)) : c \in SeqsUpTo(IdChars, MaxIdLen)}
        \cup SampleScans \cup {Malformed}

\* Rule-result nodes with and without a check, the check with up to
\* MaxKids check-content-ref and check-export children, the rule-result
\* with up to MaxKids check-content-ref children; one node without ident
\* and one without time.
RefChoices == [name : {"n"}, href : {"h"}, kids : BOOLEAN]
ExportChoices == [export_name : {"e"}, href : {"x"}]

CheckChoices ==
    {NoCheck} \cup [present : {TRUE}, system : {"oval"},
                    refs : SeqsUpTo(RefChoices, MaxKids),
                    exports : SeqsUpTo(ExportChoices, MaxKids)]

DictRules ==
    {[idref |-> T(<<"V", "-", "7">>), check |-> c, refs |-> r] :
        c \in CheckChoices, r \in SeqsUpTo(RefChoices, MaxKids)}
        \cup {[idref |-> T(<<"V", "-", "7">>), hasIdent |-> FALSE],
              [idref |-> T(<<"V", "-", "7">>), hasTime |-> FALSE]}

DictFiles == {XmlFile(ScanDoc(Facts0, Addrs0, <<r>>)) : r \in DictRules}

\* The groups of a STIG_INFO, and of a VULN after its Vuln_Num: a name
\* and no value child, or one of two values; names repeat, and one holds a
\* double quote.
InfoGroupChoices ==
    [name : {<<"version">>, <<"a", "\"", "b">>}, hasData : {TRUE}, data : {<<"1">>, <<"2">>}]
        \cup [name : {<<"version">>, <<"a", "\"", "b">>}, hasData : {FALSE}, data : {<<>>}]

InfoFiles ==
    {XmlFile([hasAsset |-> TRUE, asset |-> RawAsset,
              stigs |-> <<[hasInfo |-> TRUE, info |-> q,
                           vulns |-> <<[RawVuln("V-1", "Open", <<>>) EXCEPT
                                           !.attrs = <<RawGroup("Vuln_Num", <<"V-1">>)>> \o q]>>]>>]) :
        q \in SeqsUpTo(InfoGroupChoices, MaxGroups)}

SetValues == {Str("v")}
AssignValues(field) ==
    IF field = "STATUS" THEN {Str(x) : x \in StatusValues \cup {"Bogus"}}
    ELSE {Str("note")}

CklInit ==
    /\ \E c \in SampleFiles \cup {Malformed} :
          fs = [p \in Paths |-> IF p = "in.ckl" THEN c ELSE Absent]
    /\ dirs \in {{}, {"out"}}
    /\ Exists("out/b.ckl") => "out" \in dirs
    /\ heap = [x \in {} |-> NoDoc]
    /\ file = "in.ckl"
    /\ tree = 0
    /\ root = 0
    /\ asset = 0
    /\ stigs = <<>>
    /\ pc = "idle"
    /\ saving = [path |-> "out/b.ckl", force |-> FALSE, existed |-> FALSE]
    /\ last = Call("construct", NoView, <<>>, "none", None)
    /\ edits = 0
    /\ rt = NoTrip

\* The scan-results accessor after OpenSCAPSTIGViewerResult(file, False).
ScanIdle ==
    /\ xheap = NoTrees
    /\ xtree = 0
    /\ xroot = 0
    /\ rule_results = NoRules
    /\ xlast = [op |-> "construct", err |-> "none"]

\* The checklist accessor after Checklist(file, False), with no file.
CklIdle ==
    /\ fs = [p \in Paths |-> Absent]
    /\ dirs = {}
    /\ heap = [x \in {} |-> NoDoc]
    /\ file = "in.ckl"
    /\ tree = 0
    /\ root = 0
    /\ asset = 0
    /\ stigs = <<>>
    /\ pc = "idle"
    /\ saving = [path |-> "out/b.ckl", force |-> FALSE, existed |-> FALSE]
    /\ last = Call("construct", NoView, <<>>, "none", None)
    /\ edits = 0
    /\ rt = NoTrip

Init == CklInit /\ ScanIdle /\ xfile = Malformed

\* The checklist accessor: construct, load, assign a status, save.
Next ==
    \/ Load
    \/ \E p \in Paths, a \in BOOLEAN : Construct(p, a)
    \/ \E v \in VulnViews, x \in {Str("NotAFinding"), Str("Bogus")} : Assign(v, "STATUS", x)
    \/ \E force \in BOOLEAN : SaveCall("out/b.ckl", force)
    \/ SaveWrite
    \/ ExternWrite(NoNumFile)

Spec == Init /\ [][Next]_vars

\* The keyed views of a checklist: get and set.
ViewNext ==
    \/ Load
    \/ \E v \in Views, k \in Keys : Get(v, k)
    \/ \E v \in Views, k \in Keys, x \in SetValues : Set(v, k, x)

ViewInit == Init /\ dirs = {}

SpecView == ViewInit /\ [][ViewNext]_vars

\* The review properties of the vulnerabilities of a checklist.
EditNext ==
    \/ Load
    \/ \E v \in VulnViews, fld \in ReviewFields : \E x \in AssignValues(fld) : Assign(v, fld, x)

SpecEdit == ViewInit /\ [][EditNext]_vars

\* The keyed views over any groups: get and items.
InfoInit ==
    /\ CklIdle
    /\ ScanIdle
    /\ xfile = Malformed

InfoNext ==
    \/ \E c \in InfoFiles : fs["in.ckl"] = Absent /\ ExternWrite(c)
    \/ Load
    \/ \E v \in Views, k \in Keys : v.kind = "info" /\ Get(v, k)
    \/ \E v \in Views : Items(v)

SpecInfo == InfoInit /\ [][InfoNext]_vars

\* The scan-results accessor.
ScanInit == CklIdle /\ ScanIdle /\ xfile \in ScanFiles

ScanNext ==
    \/ ScanLoad
    \/ \E a \in BOOLEAN : ScanConstruct(a)
    \/ \E c \in SampleScans \cup {Malformed} :
          xfile \in SampleScans \cup {Malformed} /\ ScanExternWrite(c)

SpecScan == ScanInit /\ [][ScanNext]_vars

\* The rule results of a scan: as_dict.
DictInit == CklIdle /\ ScanIdle /\ xfile \in DictFiles

DictNext ==
    \/ ScanLoad
    \/ \E k \in DOMAIN rule_results : ScanAsDict(k)

SpecDict == DictInit /\ [][DictNext]_vars

\* ------------------------------------------------------------ claims
\* Whether prefix + key + suffix names a node of the document: the view
\* wraps an element, the path is one ElementPath accepts, and an element
\* named key (asset view) or a group named key with a value child (keyed
\* views) is there.
Resolves(doc, view, key) ==
    /\ NodeExists(doc, view)
    /\ ~PathInvalid(view, key)
    /\ IF view.kind = "asset"
       THEN \E i \in DOMAIN doc.asset : <<doc.asset[i].tag>> = key
       ELSE \E i \in DOMAIN Groups(doc, view) :
               Groups(doc, view)[i].name.s = key /\ Groups(doc, view)[i].hasData

\* C1: set(key, value) on an immutable keyed view (StigInfoNode, VulnNode)
\* fails with PermissionError for every key, resolving or not, and leaves
\* every text of the document as it was.
ImmutableSetRefused ==
    [][(last'.op = "set" /\ Immutable(last'.view))
          => (last'.err = "PermissionError" /\ heap' = heap)]_vars

\* C1 witness: set was called on a benchmark-info view with a key that
\* resolves there, and was refused.
ImmutableSetOnPresentKey ==
    /\ last.op = "set"
    /\ last.view.kind = "info"
    /\ Resolves(heap[last.view.gen], last.view, last.key)
    /\ last.err = "PermissionError"

RoundTripKeepsFields ==
    rt.phase = "reloaded" => heap[tree] = rt.expect

\* C4: save(path, force=False) on an existing file fails with
\* FileExistsError, and the file, the trees and the accessor's tree, root,
\* asset and stigs are what they were before the call.
SaveWithoutForceRefused ==
    [][(last'.op = "save" /\ saving'.existed /\ ~saving'.force)
          => /\ last'.err = "FileExistsError"
             /\ pc' = "idle"
             /\ fs' = fs
             /\ heap' = heap
             /\ <<tree, root, asset, stigs>>' = <<tree, root, asset, stigs>>]_vars

\* C4 witness: a loaded accessor with a tree that an assignment changed
\* was refused on an existing file.
SaveRefusedAfterEdit ==
    /\ last.op = "save"
    /\ last.err = "FileExistsError"
    /\ tree # 0
    /\ edits > 0
    /\ fs[saving.path] # XmlFile(Serialize(heap[tree]))

\* C5: when save(path, force=True) on an existing file has ended, it has
\* succeeded and the file holds the serialization of the current tree; the
\* file is neither absent nor what it was.  (Read for the end of the call
\* only: the time between unlink and write is left out.)
ForcedSaveReplaces ==
    (pc = "idle" /\ last.op = "write" /\ saving.force /\ saving.existed)
        => /\ last.err = "none"
           /\ Exists(saving.path)
           /\ fs[saving.path] = XmlFile(Serialize(heap[tree]))

\* The pairs of items() of the view the last call was made on.
LastItems == InfoItems(Groups(heap[last.view.gen], last.view))

NoSentinelReturned ==
    xroot # 0 =>
        LET doc == xheap[xroot]
        IN  /\ Str("localhost") \notin hostname(doc)
            /\ Str("127.0.0.1") \notin ipv4(doc)
            /\ Str("192.168.122.1") \notin ipv4(doc)
            /\ Str("::1") \notin ipv6(doc)
            /\ Str("00:00:00:00:00:00") \notin mac(doc)
            /\ \A x \in {Str("localhost"), Str("127.0.0.1"), Str("192.168.122.1"),
                         Str("::1"), Str("00:00:00:00:00:00")} :
                  x \notin target_addresses(doc)

\* C7 witness: a loaded document with a host_name fact "localhost" beside
\* a host_name fact that is returned.
SentinelHostLoaded ==
    /\ xroot # 0
    /\ \E i \in DOMAIN xheap[xroot].facts :
          xheap[xroot].facts[i] =
              [tag |-> "xccdf:fact", name |-> "host_name", text |-> Str("localhost")]
    /\ hostname(xheap[xroot]) # {}

\* k is V- and digits, at position i of s, with no digit after it.
IdAt(k, s, i) ==
    /\ Len(k) >= 3
    /\ k[1] = "V"
    /\ k[2] = "-"
    /\ \A j \in 3..Len(k) : IsDigit(k[j])
    /\ i + Len(k) - 1 <= Len(s)
    /\ SubSeq(s, i, i + Len(k) - 1) = k
    /\ (i + Len(k) <= Len(s) => ~IsDigit(s[i + Len(k)]))

\* A match of V-[0-9]+ starts at position i of s.
IdStarts(s, i) ==
    i + 2 <= Len(s) /\ s[i] = "V" /\ s[i + 1] = "-" /\ IsDigit(s[i + 2])

\* C8: after a load that returned, every entry (k, r) of rule_results has
\* k = r.vid, k the first substring of r's idref that is V- and one or more
\* digits, and every rule-result node of the loaded tree has such a
\* substring in its idref: a node without one makes load fail.
RuleResultsKeyedByVid ==
    (xlast.op \in {"load", "construct"} /\ xlast.err = "none" /\ xtree # 0)
        => /\ \A k \in DOMAIN rule_results :
                 LET node == xheap[rule_results[k].gen].rules[rule_results[k].idx]
                 IN  /\ ~node.idref.none
                     /\ k = vid(node)
                     /\ \E i \in DOMAIN node.idref.s :
                           /\ IdAt(k, node.idref.s, i)
                           /\ \A j \in 1..(i - 1) : ~IdStarts(node.idref.s, j)
           /\ \A n \in DOMAIN xheap[xtree].rules :
                 /\ ~xheap[xtree].rules[n].idref.none
                 /\ \E i \in DOMAIN xheap[xtree].rules[n].idref.s :
                       IdStarts(xheap[xtree].rules[n].idref.s, i)

\* C8 witness: a load returned with an entry whose idref holds text before
\* the id and a second id after it.
RuleWithTwoIdsLoaded ==
    /\ xlast.op = "load"
    /\ xlast.err = "none"
    /\ \E k \in DOMAIN rule_results :
          LET s == xheap[rule_results[k].gen].rules[rule_results[k].idx].idref.s
          IN  \E i, j \in DOMAIN s : i < j /\ IdStarts(s, i) /\ IdStarts(s, j)

\* C9: the accessor is unloaded (tree, root and asset None, stigs empty) or
\* loaded (tree, root, asset and stigs all from one parse), whatever calls
\* returned or raised.
UnloadedOrLoaded ==
    \/ tree = 0 /\ root = 0 /\ asset = 0 /\ stigs = <<>>
    \/ /\ tree # 0
       /\ root = tree
       /\ asset = tree
       /\ Len(stigs) = Len(heap[tree].stigs)
       /\ \A i \in DOMAIN stigs : stigs[i].gen = tree

\* C10: the status of every vulnerability of every tree is one of
\* Not_Reviewed, NotAFinding, Not_Applicable, Open, whatever review fields
\* were assigned.
StatusStaysEnumerated ==
    \A g \in DOMAIN heap :
        \A i \in DOMAIN heap[g].stigs :
            \A j \in DOMAIN heap[g].stigs[i].vulns :
                heap[g].stigs[i].vulns[j].f["STATUS"] \in {Str(x) : x \in StatusValues}

\* The pairs the claim has items() return for the groups: the name and the
\* value text of each group in document order, "" where the value element
\* is absent.
PairsOf(groups) ==
    [i \in DOMAIN groups |->
        <<groups[i].name, IF groups[i].hasData THEN groups[i].data ELSE T(<<>>)>>]

\* C11: items() on a StigInfoNode or a VulnNode returns, whether or not a
\* group lacks its value element, one (name, value) pair per group in
\* document order with "" for each missing value, and leaves the document
\* as it was.
ItemsToleratesMissingValue ==
    [][(last'.op = "items" /\ NodeExists(heap[last'.view.gen], last'.view))
          => /\ last'.err = "none"
             /\ last'.val.s = PairsOf(Groups(heap[last'.view.gen], last'.view))
             /\ heap' = heap]_vars

\* The node the last as_dict was called on.
LastNode == xheap[rule_results[xlast.key].gen].rules[rule_results[xlast.key].idx]

\* C12: as_dict returns a "check" entry that is not None exactly when the
\* node has a check child, with or without children of its own, and the
\* entry carries the check's system, the name and href of its
\* check-content-ref (None without one) and its check-export elements.
AsDictReportsCheck ==
    (xlast.op = "as_dict" /\ HasIdent(LastNode) /\ HasTime(LastNode))
        => /\ xlast.err = "none"
           /\ xlast.check.none = ~CheckOf(LastNode).present
           /\ ~xlast.check.none =>
                 LET c == CheckOf(LastNode)
                     d == xlast.check.items[1]
                 IN  /\ d.system = c.system
                     /\ d.check_content_ref.none = (c.refs = <<>>)
                     /\ c.refs # <<>> =>
                           /\ d.check_content_ref.name = c.refs[1].name
                           /\ d.check_content_ref.href = c.refs[1].href
                     /\ Len(d.check_export) = Len(c.exports)

\* The texts of the target facts of a family: the fact elements of the
\* XCCDF namespace whose name designates it.
FamilyFacts(doc, family) ==
    {doc.facts[i].text :
        i \in {j \in DOMAIN doc.facts :
                  doc.facts[j].tag = "xccdf:fact" /\ doc.facts[j].name = family}}

\* C13: on a loaded scan-results document each family accessor returns the
\* texts of the facts of its family minus the family's sentinels: ipv4
\* minus {127.0.0.1, 192.168.122.1}, ipv6 minus {::1}, mac minus
\* {00:00:00:00:00:00}, hostname minus {localhost}, fqdn as it is.  (Read
\* for documents whose target-facts holds XCCDF fact elements only.)
FamilyAccessorsExact ==
    (xroot # 0 /\ \A i \in DOMAIN xheap[xroot].facts :
                      xheap[xroot].facts[i].tag = "xccdf:fact") =>
        LET doc == xheap[xroot]
        IN  /\ ipv4(doc) = FamilyFacts(doc, "ipv4")
                              \ {Str("127.0.0.1"), Str("192.168.122.1")}
            /\ ipv6(doc) = FamilyFacts(doc, "ipv6") \ {Str("::1")}
            /\ mac(doc) = FamilyFacts(doc, "mac") \ {Str("00:00:00:00:00:00")}
            /\ hostname(doc) = FamilyFacts(doc, "host_name") \ {Str("localhost")}
            /\ fqdn(doc) = FamilyFacts(doc, "fqdn")

\* C14: after a load that returned, the keys of rule_results are the ids
\* of the rule-result nodes of the tree just parsed and every entry wraps a
\* node of that tree: nothing of an earlier load is left.  (Read for
\* entries that loads which returned have made: every tree still wrapped
\* is one whose load indexed all its nodes.)
RuleResultsOfLastParse ==
    (xlast.op = "load" /\ xlast.err = "none"
        /\ \A g \in DOMAIN xheap : \A i \in DOMAIN xheap[g].rules :
               VidError(xheap[g].rules[i]) = "none")
        => /\ DOMAIN rule_results =
                 {vid(xheap[xtree].rules[i]) : i \in DOMAIN xheap[xtree].rules}
           /\ \A k \in DOMAIN rule_results : rule_results[k].gen = xtree

====
